---- MODULE Spec2Model ----
(***************************************************************************)
(* Model of generate_quiz_video.py: one run of main(), from content        *)
(* generation to the final export, with the outcomes of the external tools *)
(* (GPT4All, Pillow, piper, espeak, ffmpeg) and the files found in the     *)
(* working directory as the environment's choices.                         *)
(*                                                                         *)
(* Files are abstracted to one of three states: "missing", "empty" (the    *)
(* file exists with zero bytes) and "valid" (exists, size > 0).  Times are *)
(* in hundredths of a second.                                              *)
(***************************************************************************)
EXTENDS Integers, Sequences, FiniteSets, TLC

VARIABLES
    pc,          \* the statement of main() that runs next
    PIL_AVAILABLE, \* whether the Pillow import succeeded
    fs,          \* file name -> "missing" | "empty" | "valid"
    quiz,        \* the value generate_quiz_question() returned
    bg_ok,       \* main()'s local bg_ok
    intro_wav,   \* main()'s local intro_wav (None or a file name)
    calls,       \* the external commands run so far, in order
    media,       \* what the background image and the video files written so far contain
    exit_code    \* None while running, "0" after main() returned, "1" after an uncaught exception

vars == <<pc, PIL_AVAILABLE, fs, quiz, bg_ok, intro_wav, calls, media, exit_code>>

None == "None"

(* ---------------- configuration (module constants of the script) -------- *)
MUSIC_FILE == "music/track1.mp3"
UPLOADED_BG == "/mnt/data/A_2D_digital_graphic_quiz_image_features_a_dark_bl.png"
GENERATED_BG == "background_generated.png"
FFMPEG == "ffmpeg"
INTRO_WAV == "intro_voice.wav"
MERGED == "merged_nosound.mp4"
outname == "quiz_title_ts.mp4"

SceneFiles == <<"scene_intro.mp4", "scene_question.mp4", "scene_countdown.mp4",
                "scene_answers.mp4", "scene_reveal.mp4">>

TMP_FILES == {"scene_intro.mp4", "scene_question.mp4", "scene_countdown.mp4",
              "scene_answers.mp4", "scene_reveal.mp4", "merged_nosound.mp4",
              "intro_voice.wav", "background_generated.png"}

Files == TMP_FILES \cup {MUSIC_FILE, UPLOADED_BG, outname}

FileStates == {"missing", "empty", "valid"}

(* os.path.isfile: true of a zero-byte file too *)
file_exists(f, p) == f[p] # "missing"

(* ---------------- helpers over sequences -------------------------------- *)
Range(s) == {s[i] : i \in 1..Len(s)}

RECURSIVE SumSeq(_)
SumSeq(s) == IF s = <<>> THEN 0 ELSE s[1] + SumSeq(Tail(s))

Max(a, b) == IF a >= b THEN a ELSE b

(* ---------------- 1) content generation --------------------------------- *)
(* The text returned by the generative model is a sequence of tokens: "{"  *)
(* and "}", a junk word "x", the JSON number "1", and body tokens that     *)
(* stand for the members written between the braces of a JSON object.      *)
MaxTextLen == 3

Bodies == {"ok", "noopts", "short", "badvotes", "novotes"}
Tokens == {"{", "}", "x", "1"} \cup Bodies

Texts == UNION {[1..n -> Tokens] : n \in 0..MaxTextLen}

QuizKeys == {"question", "options", "correct", "votes"}

(* A JSON value: an object (t = "dict", with the keys it has) or a number. *)
Dict(keys, q, opts, c, v) ==
    [t |-> "dict", keys |-> keys, question |-> q, options |-> opts,
     correct |-> c, votes |-> v]

NoQuiz == [t |-> "none", keys |-> {}, question |-> "", options |-> <<>>,
           correct |-> 0, votes |-> <<>>]

JsonNumber == [NoQuiz EXCEPT !.t = "int"]

EmptyDict == [NoQuiz EXCEPT !.t = "dict"]

(* the object a body token stands for *)
BodyDict(b) ==
    CASE b = "ok"       -> Dict(QuizKeys, "q", <<"A", "B", "C", "D">>, 1, <<10, 20, 50, 20>>)
      [] b = "noopts"   -> Dict(QuizKeys \ {"options"}, "q", <<>>, 1, <<10, 20, 50, 20>>)
      [] b = "short"    -> Dict(QuizKeys, "q", <<"A", "B">>, 3, <<50, 50>>)
      [] b = "badvotes" -> Dict(QuizKeys, "q", <<"A", "B", "C", "D">>, 1, <<50, 60, 10, 10>>)
      [] b = "novotes"  -> Dict(QuizKeys \ {"votes"}, "q", <<"A", "B", "C", "D">>, 1, <<>>)

(* str.find / str.rfind, as 1-based positions; 0 stands for Python's -1 *)
Find(out, c) ==
    IF \E i \in 1..Len(out) : out[i] = c
    THEN CHOOSE i \in 1..Len(out) : out[i] = c /\ \A j \in 1..(i-1) : out[j] # c
    ELSE 0

RFind(out, c) ==
    IF \E i \in 1..Len(out) : out[i] = c
    THEN CHOOSE i \in 1..Len(out) : out[i] = c /\ \A j \in (i+1)..Len(out) : out[j] # c
    ELSE 0

(* lines 86-90: cut the text down to its outermost braces *)
ExtractJson(out) ==
    IF Len(out) >= 1 /\ out[1] = "{"
    THEN out
    ELSE LET s == Find(out, "{")
             e == RFind(out, "}")
         IN  IF s # 0 /\ e # 0 THEN SubSeq(out, s, e) ELSE out

(* json.loads: ok = FALSE stands for JSONDecodeError *)
JsonLoads(out) ==
    IF Len(out) = 3 /\ out[1] = "{" /\ out[2] \in Bodies /\ out[3] = "}"
    THEN [ok |-> TRUE, val |-> BodyDict(out[2])]
    ELSE IF out = <<"{", "}">>
    THEN [ok |-> TRUE, val |-> EmptyDict]
    ELSE IF out = <<"1">>
    THEN [ok |-> TRUE, val |-> JsonNumber]
    ELSE [ok |-> FALSE, val |-> NoQuiz]

(* lines 96-115: the three built-in questions *)
fallback ==
    { Dict(QuizKeys, "Was ist der hoechste Berg der Erde?",
           <<"K2", "Mount Everest", "Kangchenjunga", "Nanga Parbat">>, 1, <<5, 80, 10, 5>>),
      Dict(QuizKeys, "Wer malte die Mona Lisa?",
           <<"Picasso", "Da Vinci", "Van Gogh", "Monet">>, 1, <<5, 85, 7, 3>>),
      Dict(QuizKeys, "Welche Farbe entsteht durch Mischen von Rot und Blau?",
           <<"Gruen", "Lila", "Orange", "Gelb">>, 1, <<3, 88, 5, 4>>) }

(* generate_quiz_question: gpt = FALSE when the import, the model load or  *)
(* the generation raises; out is the generated text; pick is random.choice *)
generate_quiz_question(gpt, out, pick) ==
    IF gpt /\ JsonLoads(ExtractJson(out)).ok
    THEN JsonLoads(ExtractJson(out)).val
    ELSE pick

(* dict.get(key) is an AttributeError on a value that is no dict *)
HasGet(q) == q.t = "dict"

(* the QuizItem invariants of the data model *)
ValidQuizItem(q) ==
    /\ q.t = "dict"
    /\ QuizKeys \subseteq q.keys
    /\ Len(q.options) = 4
    /\ q.correct >= 0 /\ q.correct < 4
    /\ Len(q.votes) = 4
    /\ SumSeq(q.votes) = 100

(* ---------------- external commands ------------------------------------- *)
(* run(cmd) with check=True: "raise" is CalledProcessError or              *)
(* FileNotFoundError; the other outcomes are exit status 0 with the output *)
(* file written ("ok"), written with zero bytes ("empty") or not written   *)
(* at all ("nofile").                                                      *)
RunOutcomes == {"raise", "ok", "empty", "nofile"}

(* the file system after a command for output p ended with outcome o *)
Written(f, p, o) ==
    CASE o = "ok"    -> [f EXCEPT ![p] = "valid"]
      [] o = "empty" -> [f EXCEPT ![p] = "empty"]
      [] OTHER       -> f

(* ffmpeg exits non-zero when one of its inputs is missing or has no data *)
FfmpegOutcomes(f, inputs) ==
    IF \A i \in 1..Len(inputs) : f[inputs[i]] = "valid" THEN RunOutcomes ELSE {"raise"}

(* A command line: the tool, its -i inputs in order, its -t option (0 when  *)
(* absent), the stages of its -filter_complex graph, its -map options in   *)
(* order and its output file; args holds further options that tell two     *)
(* command lines of one tool apart.  In the log rc says how the command    *)
(* ended: "raise" or "0".                                                  *)
(* A stream label is <<kind, index>>: <<"v_in", i>> is [i:v], <<"a_in", i>> *)
(* is [i:a], <<"v", i>> is [vi] and <<"aout", 0>> is [aout].               *)
Cmd(tool, inputs, t, filter, maps, out) ==
    [tool |-> tool, inputs |-> inputs, t |-> t, filter |-> filter, maps |-> maps,
     out |-> out, args |-> <<>>, rc |-> ""]

WithArgs(cmd, args) == [cmd EXCEPT !.args = args]

(* the log entry of a command that ended with outcome o *)
Ended(cmd, o) == [cmd EXCEPT !.rc = IF o = "raise" THEN "raise" ELSE "0"]

(* run(cmd) appends to the log *)
Logged(cs, cmd, o) == Append(cs, Ended(cmd, o))

Stage(op, a, b, param, out) ==
    [op |-> op, a |-> a, b |-> b, param |-> param, out |-> out]

(* the result of a Python call: its return value, whether it raised, and   *)
(* the file system and command log it leaves                               *)
Result(ret, exc, f, cs) == [ret |-> ret, exc |-> exc, fs |-> f, calls |-> cs]

(* ---------------- 3) text to speech ------------------------------------- *)
(* synthesize_intro_voice_piper: found = a piper binary is on the path     *)
synthesize_intro_voice_piper(f, cs, found, o) ==
    IF found
    THEN LET cs1 == Logged(cs, Cmd("piper", <<>>, 0, <<>>, <<>>, INTRO_WAV), o)
             f1  == Written(f, INTRO_WAV, o)
         IN  IF o # "raise" /\ file_exists(f1, INTRO_WAV)
             THEN Result(TRUE, FALSE, f1, cs1)
             ELSE Result(FALSE, FALSE, f1, cs1)
    ELSE Result(FALSE, FALSE, f, cs)

(* lines 285-286 and 297: espeak with the voice option, and without *)
EspeakCmd(voice, out_wav) == WithArgs(Cmd("espeak", <<>>, 0, <<>>, <<>>, out_wav), voice)

(* a variant of the espeak fallback whose second call is outside any try *)
synthesize_intro_voice_espeak_uncaught(f, cs, o1, o2) ==
    LET cs1 == Logged(cs, EspeakCmd(<<"-v", "de+f3">>, INTRO_WAV), o1)
        f1  == Written(f, INTRO_WAV, o1)
        cs2 == Logged(cs1, EspeakCmd(<<>>, INTRO_WAV), o2)
        f2  == Written(f1, INTRO_WAV, o2)
    IN  IF o1 # "raise" /\ file_exists(f1, INTRO_WAV)
        THEN Result(TRUE, FALSE, f1, cs1)
        ELSE IF o2 = "raise"
        THEN Result(FALSE, TRUE, f2, cs2)
        ELSE Result(file_exists(f2, INTRO_WAV), FALSE, f2, cs2)

(* synthesize_intro_voice_espeak: o1 is the outcome of the call with the   *)
(* voice flag, o2 that of the second call without it                       *)
synthesize_intro_voice_espeak(f, cs, o1, o2) ==
    LET cs1 == Logged(cs, EspeakCmd(<<"-v", "de+f3">>, INTRO_WAV), o1)
        f1  == Written(f, INTRO_WAV, o1)
        cs2 == Logged(cs1, EspeakCmd(<<>>, INTRO_WAV), o2)
        f2  == Written(f1, INTRO_WAV, o2)
    IN  IF o1 # "raise" /\ file_exists(f1, INTRO_WAV)
        THEN Result(TRUE, FALSE, f1, cs1)
        ELSE IF o2 = "raise"
        THEN Result(FALSE, FALSE, f2, cs2)
        ELSE Result(file_exists(f2, INTRO_WAV), FALSE, f2, cs2)

(* synthesize_intro_voice: Piper first, then espeak *)
synthesize_intro_voice(f, cs, found, op, o1, o2) ==
    LET r1 == synthesize_intro_voice_piper(f, cs, found, op)
        r2 == synthesize_intro_voice_espeak(r1.fs, r1.calls, o1, o2)
    IN  IF r1.exc THEN r1
        ELSE IF r1.ret THEN [r1 EXCEPT !.ret = INTRO_WAV]
        ELSE IF r2.exc THEN r2
        ELSE IF r2.ret THEN [r2 EXCEPT !.ret = INTRO_WAV]
        ELSE [r2 EXCEPT !.ret = None]

(* ---------------- 2) background ----------------------------------------- *)
(* make_glossy_background: g = "ok" when the image is drawn and saved,     *)
(* "raise" when Pillow raises on the way                                   *)
make_glossy_background(f, cs, pil, g) ==
    IF ~pil THEN Result(FALSE, FALSE, f, cs)
    ELSE IF g = "raise" THEN Result(FALSE, TRUE, f, cs)
    ELSE Result(TRUE, FALSE, [f EXCEPT ![GENERATED_BG] = "valid"], cs)

(* ---------------- what the encoder writes ------------------------------- *)
(* The content of a video file: the scenes of its picture in order, its    *)
(* length, and its audio tracks in order, each a source with a gain in     *)
(* percent.                                                                *)
VideoFiles == (TMP_FILES \ {INTRO_WAV, GENERATED_BG}) \cup {outname}

NoMedia == [video |-> <<>>, dur |-> 0, audio |-> <<>>]

(* the background image is described the same way: a still picture named  *)
(* after where it comes from                                               *)
MediaFiles == VideoFiles \cup {GENERATED_BG}

Picture(src) == [video |-> <<src>>, dur |-> 0, audio |-> <<>>]

Track(src, gain) == [src |-> src, gain |-> gain]

(* the audio tracks of an input file *)
InputAudio(m, p) ==
    IF p \in {INTRO_WAV, MUSIC_FILE} THEN <<Track(p, 100)>>
    ELSE IF p \in VideoFiles THEN m[p].audio
    ELSE <<>>

(* the stage of the filter graph that writes a label *)
StageOf(cmd, label) == CHOOSE i \in 1..Len(cmd.filter) : cmd.filter[i].out = label

RECURSIVE VideoOf(_, _, _)
VideoOf(cmd, m, label) ==
    IF label[1] = "v_in" THEN m[cmd.inputs[label[2] + 1]].video
    ELSE LET st == cmd.filter[StageOf(cmd, label)]
         IN  VideoOf(cmd, m, st.a) \o VideoOf(cmd, m, st.b)

(* xfade: the output ends where the second input ends, offset + its length *)
RECURSIVE LengthOf(_, _, _)
LengthOf(cmd, m, label) ==
    IF label[1] = "v_in" THEN m[cmd.inputs[label[2] + 1]].dur
    ELSE LET st == cmd.filter[StageOf(cmd, label)]
         IN  st.param + LengthOf(cmd, m, st.b)

(* volume: every track of the input with its gain scaled *)
AudioOf(cmd, m, label) ==
    IF label[1] = "a_in" THEN InputAudio(m, cmd.inputs[label[2] + 1])
    ELSE LET st == cmd.filter[StageOf(cmd, label)]
             a  == InputAudio(m, cmd.inputs[st.a[2] + 1])
         IN  [i \in 1..Len(a) |-> Track(a[i].src, (a[i].gain * st.param) \div 100)]

IsVideoLabel(l) == l[1] \in {"v_in", "v"}

RECURSIVE MappedVideo(_, _, _)
MappedVideo(cmd, m, maps) ==
    IF maps = <<>> THEN NoMedia
    ELSE LET rest == MappedVideo(cmd, m, Tail(maps))
         IN  IF IsVideoLabel(maps[1])
             THEN [rest EXCEPT !.video = VideoOf(cmd, m, maps[1]) \o @,
                               !.dur = Max(LengthOf(cmd, m, maps[1]), @)]
             ELSE [rest EXCEPT !.audio = AudioOf(cmd, m, maps[1]) \o @]

RECURSIVE AllAudio(_, _)
AllAudio(m, inputs) ==
    IF inputs = <<>> THEN <<>> ELSE InputAudio(m, inputs[1]) \o AllAudio(m, Tail(inputs))

(* The file ffmpeg writes: with -map options the mapped streams in order;  *)
(* without, a clip of length -t drawn over the looped image, with the      *)
(* first audio stream of the inputs.                                       *)
FfmpegOutput(cmd, m) ==
    IF cmd.maps # <<>> THEN MappedVideo(cmd, m, cmd.maps)
    ELSE [video |-> <<cmd.out>>, dur |-> cmd.t,
          audio |-> IF AllAudio(m, cmd.inputs) = <<>> THEN <<>>
                    ELSE <<AllAudio(m, cmd.inputs)[1]>>]

MResult(ret, exc, f, cs, m) == [ret |-> ret, exc |-> exc, fs |-> f, calls |-> cs, media |-> m]

(* main, lines 514-521: the generated background is tried first; an       *)
(* exception of the generator is caught.  ret is bg_ok.                    *)
background_generate(f, cs, m, pil, g) ==
    LET gen == make_glossy_background(f, cs, pil, g)
    IN  IF pil /\ ~gen.exc /\ gen.ret
        THEN MResult(TRUE, FALSE, gen.fs, cs, [m EXCEPT ![GENERATED_BG] = Picture("generated")])
        ELSE MResult(FALSE, FALSE, f, cs, m)

(* a variant of the fallback that takes the uploaded image whenever it     *)
(* exists, whether or not a background was generated                       *)
background_fallback_uploaded_first(f, cs, m, pil, ok, ph, o) ==
    LET cmd == Cmd(FFMPEG, <<>>, 0, <<>>, <<>>, GENERATED_BG)
    IN  IF file_exists(f, UPLOADED_BG)
        THEN MResult(TRUE, FALSE, [f EXCEPT ![GENERATED_BG] = f[UPLOADED_BG]], cs,
                     [m EXCEPT ![GENERATED_BG] = Picture(UPLOADED_BG)])
        ELSE IF ok THEN MResult(TRUE, FALSE, f, cs, m)
        ELSE IF pil
        THEN IF ph = "raise" THEN MResult(FALSE, TRUE, f, cs, m)
             ELSE MResult(TRUE, FALSE, [f EXCEPT ![GENERATED_BG] = "valid"], cs,
                          [m EXCEPT ![GENERATED_BG] = Picture("placeholder")])
        ELSE IF o = "raise" THEN MResult(FALSE, TRUE, f, Logged(cs, cmd, o), m)
        ELSE MResult(FALSE, FALSE, Written(f, GENERATED_BG, o), Logged(cs, cmd, o),
                     CASE o = "ok"    -> [m EXCEPT ![GENERATED_BG] = Picture("placeholder")]
                       [] o = "empty" -> [m EXCEPT ![GENERATED_BG] = NoMedia]
                       [] OTHER       -> m)

(* main, lines 522-537: with no generated background (ok = bg_ok is false) *)
(* the uploaded image is copied, else a placeholder is made by Pillow      *)
(* (outcome ph) or by ffmpeg (outcome o).  ret is bg_ok.                   *)
background_fallback(f, cs, m, pil, ok, ph, o) ==
    LET cmd == Cmd(FFMPEG, <<>>, 0, <<>>, <<>>, GENERATED_BG)
    IN  IF ok THEN MResult(TRUE, FALSE, f, cs, m)
        ELSE IF file_exists(f, UPLOADED_BG)
        THEN MResult(TRUE, FALSE, [f EXCEPT ![GENERATED_BG] = f[UPLOADED_BG]], cs,
                     [m EXCEPT ![GENERATED_BG] = Picture(UPLOADED_BG)])
        ELSE IF pil
        THEN IF ph = "raise" THEN MResult(FALSE, TRUE, f, cs, m)
             ELSE MResult(TRUE, FALSE, [f EXCEPT ![GENERATED_BG] = "valid"], cs,
                          [m EXCEPT ![GENERATED_BG] = Picture("placeholder")])
        ELSE IF o = "raise" THEN MResult(FALSE, TRUE, f, Logged(cs, cmd, o), m)
        ELSE MResult(FALSE, FALSE, Written(f, GENERATED_BG, o), Logged(cs, cmd, o),
                     CASE o = "ok"    -> [m EXCEPT ![GENERATED_BG] = Picture("placeholder")]
                       [] o = "empty" -> [m EXCEPT ![GENERATED_BG] = NoMedia]
                       [] OTHER       -> m)

(* run(cmd) for an ffmpeg command with outcome o *)
RunFfmpeg(f, cs, m, cmd, o) ==
    IF o = "raise" THEN MResult(None, TRUE, f, Logged(cs, cmd, o), m)
    ELSE MResult(None, FALSE, Written(f, cmd.out, o), Logged(cs, cmd, o),
                 CASE o = "ok"    -> [m EXCEPT ![cmd.out] = FfmpegOutput(cmd, m)]
                   [] o = "empty" -> [m EXCEPT ![cmd.out] = NoMedia]
                   [] OTHER       -> m)

(* ---------------- 4) scenes --------------------------------------------- *)
(* create_scene_intro: the voice is an input only when the file exists *)
create_scene_intro(f, cs, m, voice_wav, duration, o) ==
    LET inputs == IF voice_wav # None /\ file_exists(f, voice_wav)
                  THEN <<GENERATED_BG, voice_wav>>
                  ELSE <<GENERATED_BG>>
    IN  RunFfmpeg(f, cs, m, Cmd(FFMPEG, inputs, duration, <<>>, <<>>, "scene_intro.mp4"), o)

(* create_scene_question: quiz["question"] is a KeyError when absent *)
create_scene_question(f, cs, m, q, duration, o) ==
    IF "question" \notin q.keys THEN MResult(None, TRUE, f, cs, m)
    ELSE RunFfmpeg(f, cs, m,
                   Cmd(FFMPEG, <<GENERATED_BG>>, duration, <<>>, <<>>, "scene_question.mp4"), o)

create_scene_countdown(f, cs, m, duration, o) ==
    RunFfmpeg(f, cs, m,
              Cmd(FFMPEG, <<GENERATED_BG>>, duration, <<>>, <<>>, "scene_countdown.mp4"), o)

(* create_scene_answers: quiz["options"] is a KeyError when absent, and    *)
(* ys[i] an IndexError from the fifth option on                            *)
create_scene_answers(f, cs, m, q, duration, o) ==
    IF "options" \notin q.keys \/ Len(q.options) > 4 THEN MResult(None, TRUE, f, cs, m)
    ELSE RunFfmpeg(f, cs, m,
                   Cmd(FFMPEG, <<GENERATED_BG>>, duration, <<>>, <<>>, "scene_answers.mp4"), o)

(* create_scene_reveal: quiz["correct"], quiz["options"] and               *)
(* options[correct] raise KeyError or IndexError                           *)
create_scene_reveal(f, cs, m, q, duration, o) ==
    IF \/ "correct" \notin q.keys
       \/ "options" \notin q.keys
       \/ q.correct >= Len(q.options)
       \/ q.correct < 0 - Len(q.options)
    THEN MResult(None, TRUE, f, cs, m)
    ELSE RunFfmpeg(f, cs, m,
                   Cmd(FFMPEG, <<GENERATED_BG>>, duration, <<>>, <<>>, "scene_reveal.mp4"), o)

(* ---------------- 5) merge ---------------------------------------------- *)
cross_dur == 70

(* a variant of the offsets that leaves out the half crossfade *)
RECURSIVE Offsets_cumulative(_, _)
Offsets_cumulative(durations, cum) ==
    IF Len(durations) <= 1 THEN <<>>
    ELSE <<Max(10, cum + durations[1])>>
         \o Offsets_cumulative(Tail(durations), cum + durations[1])

(* line 446-450: cumulative durations minus half the crossfade, at least 0.1 s *)
RECURSIVE Offsets(_, _)
Offsets(durations, cum) ==
    IF Len(durations) <= 1 THEN <<>>
    ELSE <<Max(10, cum + durations[1] - cross_dur \div 2)>>
         \o Offsets(Tail(durations), cum + durations[1])

(* a variant of the chain that gives xfade its two inputs the other way round *)
fc_parts_swapped(inputs, offsets) ==
    [k \in 1..(Len(inputs) - 1) |->
        Stage("xfade",
              <<"v_in", k>>,
              IF k = 1 THEN <<"v_in", 0>> ELSE <<"v", k - 1>>,
              offsets[k],
              <<"v", k>>)]

(* lines 451-456: the xfade chain [0:v][1:v] -> [v1], [v1][2:v] -> [v2], ... *)
fc_parts(inputs, offsets) ==
    [k \in 1..(Len(inputs) - 1) |->
        Stage("xfade",
              IF k = 1 THEN <<"v_in", 0>> ELSE <<"v", k - 1>>,
              <<"v_in", k>>,
              offsets[k],
              <<"v", k>>)]

MergeCmd(durations, output_video) ==
    LET inputs == SceneFiles
    IN  Cmd(FFMPEG, inputs, 0, fc_parts(inputs, Offsets(durations, 0)),
            << <<"v", Len(inputs) - 1>> >>, output_video)

merge_scenes_with_crossfade(f, cs, m, durations, output_video, o) ==
    RunFfmpeg(f, cs, m, MergeCmd(durations, output_video), o)

(* ---------------- 6) music and export ----------------------------------- *)
(* the first command maps the video, the music as it is and the music      *)
(* through volume=0.25; the second leaves the filter out                   *)
MixCmd(input_video, music_file, output_file) ==
    Cmd(FFMPEG, <<input_video, music_file>>, 0,
        <<Stage("volume", <<"a_in", 1>>, <<"a_in", 1>>, 25, <<"aout", 0>>)>>,
        << <<"v_in", 0>>, <<"a_in", 1>>, <<"aout", 0>> >>, output_file)

(* a variant of the second command that runs the first command line again *)
MixCmd2_again(input_video, music_file, output_file) ==
    MixCmd(input_video, music_file, output_file)

MixCmd2(input_video, music_file, output_file) ==
    Cmd(FFMPEG, <<input_video, music_file>>, 0, <<>>,
        << <<"v_in", 0>>, <<"a_in", 1>> >>, output_file)

add_music_and_export(f, cs, m, input_video, music_file, output_file, o1, o2) ==
    IF ~file_exists(f, music_file)
    THEN IF f[input_video] = "missing"
         THEN MResult(None, TRUE, f, cs, m)
         ELSE MResult(None, FALSE, [f EXCEPT ![output_file] = f[input_video]], cs,
                      [m EXCEPT ![output_file] = m[input_video]])
    ELSE LET r1 == RunFfmpeg(f, cs, m, MixCmd(input_video, music_file, output_file), o1)
         IN  IF ~r1.exc THEN r1
             ELSE RunFfmpeg(r1.fs, r1.calls, r1.media,
                            MixCmd2(input_video, music_file, output_file), o2)

(* ---------------- 7) cleanup -------------------------------------------- *)
cleanup_temp(f) == [p \in Files |-> IF p \in TMP_FILES THEN "missing" ELSE f[p]]

(* ---------------- main -------------------------------------------------- *)
durations == <<200, 400, 500, 500, 400>>

Init ==
    /\ pc = "generate_quiz"
    /\ PIL_AVAILABLE \in BOOLEAN
    /\ \E up \in FileStates, mu \in FileStates :
          fs = [p \in Files |-> IF p = UPLOADED_BG THEN up
                                ELSE IF p = MUSIC_FILE THEN mu
                                ELSE "missing"]
    /\ quiz = NoQuiz
    /\ bg_ok = FALSE
    /\ intro_wav = None
    /\ calls = <<>>
    /\ media = [p \in MediaFiles |-> NoMedia]
    /\ exit_code = None

(* an exception nobody catches ends the process with a traceback *)
Raise(f, cs, m) ==
    /\ pc' = "aborted"
    /\ exit_code' = "1"
    /\ fs' = f
    /\ calls' = cs
    /\ media' = m

(* the call returned: go on with the next statement *)
Continue(next, f, cs, m) ==
    /\ pc' = next
    /\ exit_code' = exit_code
    /\ fs' = f
    /\ calls' = cs
    /\ media' = m

Step(r, next) ==
    IF r.exc THEN Raise(r.fs, r.calls, r.media) ELSE Continue(next, r.fs, r.calls, r.media)

(* line 510 *)
GenerateQuiz ==
    /\ pc = "generate_quiz"
    /\ \E gpt \in BOOLEAN, out \in Texts, pick \in fallback :
          quiz' = generate_quiz_question(gpt, out, pick)
    /\ pc' = "generate_title"
    /\ UNCHANGED <<PIL_AVAILABLE, fs, bg_ok, intro_wav, calls, media, exit_code>>

(* line 511: quiz.get("question") raises on a value that is no dict; the   *)
(* title itself is text that no later branch depends on                    *)
GenerateTitle ==
    /\ pc = "generate_title"
    /\ IF HasGet(quiz) THEN Continue("background", fs, calls, media)
                       ELSE Raise(fs, calls, media)
    /\ UNCHANGED <<PIL_AVAILABLE, quiz, bg_ok, intro_wav>>

(* lines 513-521 *)
Background ==
    /\ pc = "background"
    /\ \E g \in {"ok", "raise"} :
          LET r == background_generate(fs, calls, media, PIL_AVAILABLE, g)
          IN  /\ bg_ok' = r.ret
              /\ Step(r, "background_fallback")
    /\ UNCHANGED <<PIL_AVAILABLE, quiz, intro_wav>>

(* lines 522-537 *)
BackgroundFallback ==
    /\ pc = "background_fallback"
    /\ \E ph \in {"ok", "raise"}, o \in RunOutcomes :
          LET r == background_fallback(fs, calls, media, PIL_AVAILABLE, bg_ok, ph, o)
          IN  /\ bg_ok' = r.ret
              /\ Step(r, "voice")
    /\ UNCHANGED <<PIL_AVAILABLE, quiz, intro_wav>>

(* lines 540-541 *)
SynthesizeVoice ==
    /\ pc = "voice"
    /\ \E found \in BOOLEAN, op \in RunOutcomes, o1 \in RunOutcomes, o2 \in RunOutcomes :
          LET r == synthesize_intro_voice(fs, calls, found, op, o1, o2)
          IN  /\ intro_wav' = IF r.exc THEN intro_wav ELSE r.ret
              /\ IF r.exc THEN Raise(r.fs, r.calls, media)
                          ELSE Continue("scene_intro", r.fs, r.calls, media)
    /\ UNCHANGED <<PIL_AVAILABLE, quiz, bg_ok>>

(* line 544 *)
SceneIntro ==
    /\ pc = "scene_intro"
    /\ \E o \in RunOutcomes :
          LET r == create_scene_intro(fs, calls, media, intro_wav, 200, o)
          IN  /\ o \in FfmpegOutcomes(fs, r.calls[Len(r.calls)].inputs)
              /\ Step(r, "scene_question")
    /\ UNCHANGED <<PIL_AVAILABLE, quiz, bg_ok, intro_wav>>

(* line 545 *)
SceneQuestion ==
    /\ pc = "scene_question"
    /\ \E o \in FfmpegOutcomes(fs, <<GENERATED_BG>>) :
          Step(create_scene_question(fs, calls, media, quiz, 400, o), "scene_countdown")
    /\ UNCHANGED <<PIL_AVAILABLE, quiz, bg_ok, intro_wav>>

(* line 546 *)
SceneCountdown ==
    /\ pc = "scene_countdown"
    /\ \E o \in FfmpegOutcomes(fs, <<GENERATED_BG>>) :
          Step(create_scene_countdown(fs, calls, media, 500, o), "scene_answers")
    /\ UNCHANGED <<PIL_AVAILABLE, quiz, bg_ok, intro_wav>>

(* line 547 *)
SceneAnswers ==
    /\ pc = "scene_answers"
    /\ \E o \in FfmpegOutcomes(fs, <<GENERATED_BG>>) :
          Step(create_scene_answers(fs, calls, media, quiz, 500, o), "scene_reveal")
    /\ UNCHANGED <<PIL_AVAILABLE, quiz, bg_ok, intro_wav>>

(* line 548 *)
SceneReveal ==
    /\ pc = "scene_reveal"
    /\ \E o \in FfmpegOutcomes(fs, <<GENERATED_BG>>) :
          Step(create_scene_reveal(fs, calls, media, quiz, 400, o), "merge")
    /\ UNCHANGED <<PIL_AVAILABLE, quiz, bg_ok, intro_wav>>

(* lines 551-552 *)
Merge ==
    /\ pc = "merge"
    /\ \E o \in FfmpegOutcomes(fs, SceneFiles) :
          Step(merge_scenes_with_crossfade(fs, calls, media, durations, MERGED, o), "export")
    /\ UNCHANGED <<PIL_AVAILABLE, quiz, bg_ok, intro_wav>>

(* lines 555-560 *)
Export ==
    /\ pc = "export"
    /\ \E o1 \in FfmpegOutcomes(fs, <<MERGED, MUSIC_FILE>>),
          o2 \in FfmpegOutcomes(fs, <<MERGED, MUSIC_FILE>>) :
          Step(add_music_and_export(fs, calls, media, MERGED, MUSIC_FILE, outname, o1, o2),
               "finish")
    /\ UNCHANGED <<PIL_AVAILABLE, quiz, bg_ok, intro_wav>>

(* lines 562-563: the success message, the cleanup, and main() returns *)
Finish ==
    /\ pc = "finish"
    /\ pc' = "done"
    /\ exit_code' = "0"
    /\ fs' = cleanup_temp(fs)
    /\ UNCHANGED <<PIL_AVAILABLE, quiz, bg_ok, intro_wav, calls, media>>

Next ==
    \/ GenerateQuiz
    \/ GenerateTitle
    \/ Background
    \/ BackgroundFallback
    \/ SynthesizeVoice
    \/ SceneIntro
    \/ SceneQuestion
    \/ SceneCountdown
    \/ SceneAnswers
    \/ SceneReveal
    \/ Merge
    \/ Export
    \/ Finish

Spec == Init /\ [][Next]_vars

(* ======================= properties ===================================== *)
SceneSet == Range(SceneFiles)

(* a scene render was started: its command is in the log *)
SceneRenderStarted == \E i \in 1..Len(calls) : calls[i].out \in SceneSet

Ran(tool) == \E i \in 1..Len(calls) : calls[i].tool = tool

HasTrack(audio, src) == \E i \in 1..Len(audio) : audio[i].src = src

(* C1: narration failure is never fatal.  Whatever piper and espeak do,    *)
(* the statement that calls synthesize_intro_voice goes on to the intro    *)
(* scene with a narration reference or None and without an exception; and  *)
(* with None the intro scene is rendered by the command without an audio   *)
(* input.                                                                  *)
C1_NarrationNeverFatal ==
    [][ /\ (pc = "voice" =>
               /\ pc' = "scene_intro"
               /\ exit_code' = None
               /\ intro_wav' \in {None, INTRO_WAV})
        /\ (pc = "scene_intro" /\ intro_wav = None =>
               \E o \in RunOutcomes :
                  calls' = Logged(calls, Cmd(FFMPEG, <<GENERATED_BG>>, 200, <<>>, <<>>,
                                             "scene_intro.mp4"), o)) ]_vars

(* C1 witness: piper and both espeak calls ran, no narration came out, and *)
(* the run went through every later stage to the end with a silent intro   *)
C1_Witness ==
    /\ pc = "done"
    /\ intro_wav = None
    /\ Ran("piper")
    /\ Cardinality({i \in 1..Len(calls) : calls[i].tool = "espeak"}) = 2
    /\ media["scene_intro.mp4"].audio = <<>>

(* C2: the background is mandatory.  While the run is on, a scene render   *)
(* has been started only with a background file that exists and is not     *)
(* empty.                                                                  *)
C2_BackgroundMandatory ==
    (pc # "done" /\ SceneRenderStarted) => fs[GENERATED_BG] = "valid"

(* C3: no concatenation with gaps.  When the merge step is reached with a  *)
(* scene file missing or empty, the run aborts without running the merge   *)
(* command and without a final file.                                       *)
C3_NoConcatWithGaps ==
    [][ (pc = "merge" /\ \E i \in 1..Len(SceneFiles) : fs[SceneFiles[i]] # "valid") =>
            /\ pc' = "aborted"
            /\ calls' = calls
            /\ fs'[outname] = "missing" ]_vars

(* C4: success only after validation.  Exit code 0 is reached only with a  *)
(* final file that exists and is not empty.                                *)
C4_SuccessOnlyIfFinalValid ==
    exit_code = "0" => fs[outname] = "valid"

(* C5, as claimed: the merged timeline is intro, countdown, question,      *)
(* answers, reveal.                                                        *)
C5_CountdownBeforeQuestion ==
    (pc \in {"export", "finish"} /\ fs[MERGED] = "valid") =>
        media[MERGED].video = <<"scene_intro.mp4", "scene_countdown.mp4",
                                "scene_question.mp4", "scene_answers.mp4",
                                "scene_reveal.mp4">>

Timeline == <<"scene_intro.mp4", "scene_question.mp4", "scene_countdown.mp4",
              "scene_answers.mp4", "scene_reveal.mp4">>

(* the outputs of the scene renders run so far, in the order they ran *)
RECURSIVE RenderedOrder(_)
RenderedOrder(cs) ==
    IF cs = <<>> THEN <<>>
    ELSE IF cs[1].out \in SceneSet THEN <<cs[1].out>> \o RenderedOrder(Tail(cs))
    ELSE RenderedOrder(Tail(cs))

(* C5, amended: the scenes are rendered in the order intro, question,      *)
(* countdown, answers, reveal (5 = 1 + 4*1 segments for the one item), and *)
(* the merged video and the final video hold exactly these five in that    *)
(* order.                                                                  *)
C5_TimelineOrder ==
    /\ RenderedOrder(calls) = SubSeq(Timeline, 1, Len(RenderedOrder(calls)))
    /\ (pc \in {"export", "finish"} /\ fs[MERGED] = "valid") =>
           media[MERGED].video = Timeline
    /\ (pc \in {"finish", "done"} /\ fs[outname] = "valid") =>
           media[outname].video = Timeline

(* C5 witness: a finished run with a valid final video of five segments *)
C5_Witness ==
    /\ pc = "done"
    /\ fs[outname] = "valid"
    /\ Len(media[outname].video) = 5
    /\ RenderedOrder(calls) = Timeline

(* C6: the item the content provider returns satisfies the QuizItem        *)
(* invariants whatever the generative provider wrote.                      *)
C6_QuizItemValid ==
    pc # "generate_quiz" => ValidQuizItem(quiz)

(* C7: when a narration was produced and went into the intro scene, the    *)
(* audio of the final video contains it.                                   *)
C7_NarrationInFinal ==
    (/\ pc \in {"finish", "done"}
     /\ fs[outname] = "valid"
     /\ intro_wav # None
     /\ HasTrack(media["scene_intro.mp4"].audio, INTRO_WAV)) =>
        HasTrack(media[outname].audio, INTRO_WAV)

(* C8: when the final video carries music, the music at gain 0.25 is its   *)
(* only audio track.                                                       *)
C8_MusicAttenuated ==
    (fs[outname] = "valid" /\ HasTrack(media[outname].audio, MUSIC_FILE)) =>
        media[outname].audio = <<Track(MUSIC_FILE, 25)>>

(* C9, as claimed: the merged video is as long as the sum of the segment   *)
(* durations.                                                              *)
C9_DurationIsSum ==
    (pc \in {"export", "finish"} /\ fs[MERGED] = "valid") =>
        media[MERGED].dur = SumSeq(durations)

(* C9, amended: the merged video is as long as the sum of the segment      *)
(* durations less half the crossfade duration (19.65 s).                   *)
C9_DurationIsSumLessHalfCross ==
    (pc \in {"export", "finish"} /\ fs[MERGED] = "valid") =>
        /\ media[MERGED].dur = SumSeq(durations) - cross_dur \div 2
        /\ media[MERGED].dur = 1965

(* C9 witness: the merge command has written a valid merged video *)
C9_Witness ==
    /\ pc = "export"
    /\ fs[MERGED] = "valid"
    /\ calls[Len(calls)].out = MERGED

(* C10: a missing or zero-byte narration file is never a success: right    *)
(* after synthesize_intro_voice a narration reference names a file that    *)
(* exists and is not empty.                                                *)
C10_NarrationFileValid ==
    (pc = "scene_intro" /\ intro_wav # None) => fs[intro_wav] = "valid"

(* two log entries for the same tool and the same output file *)
SameToolAndOutput(a, b) == a.tool = b.tool /\ a.out = b.out

(* two log entries with the same command line, however each ended *)
SameCommandLine(a, b) == [a EXCEPT !.rc = ""] = [b EXCEPT !.rc = ""]

(* C11, as claimed: after a call of an external tool failed, the same tool *)
(* is never invoked again for the same output.                             *)
C11_NoSecondInvocation ==
    \A i \in 1..Len(calls) : \A j \in 1..Len(calls) :
        (i < j /\ calls[i].rc = "raise") => ~SameToolAndOutput(calls[i], calls[j])

(* C11, amended: no command line is run again after it failed.  A failed   *)
(* call is followed by the next provider, by the end of the run, or by one *)
(* more invocation of the same tool for the same output, at once and with  *)
(* a different command line; no tool is invoked more than twice for one    *)
(* output.                                                                 *)
C11_NoRetryOfSameCommand ==
    /\ \A i \in 1..Len(calls) : \A j \in 1..Len(calls) :
          (i < j /\ calls[i].rc = "raise" /\ SameToolAndOutput(calls[i], calls[j])) =>
              /\ j = i + 1
              /\ ~SameCommandLine(calls[i], calls[j])
    /\ \A i \in 1..Len(calls) :
          Cardinality({j \in 1..Len(calls) : SameToolAndOutput(calls[i], calls[j])}) <= 2

(* C11 witness: the first mix command failed, the second one ran for the   *)
(* same output and the run went on                                         *)
C11_Witness ==
    /\ pc = "finish"
    /\ Len(calls) >= 2
    /\ calls[Len(calls) - 1].rc = "raise"
    /\ calls[Len(calls) - 1].out = outname
    /\ calls[Len(calls)].out = outname
    /\ calls[Len(calls)].rc = "0"

(* C12, as claimed: whenever the supplied image exists, it is the          *)
(* background used.                                                        *)
C12_UploadedImageFirst ==
    (pc = "voice" /\ file_exists(fs, UPLOADED_BG)) =>
        media[GENERATED_BG] = Picture(UPLOADED_BG)

(* C12, amended: the providers are tried in the order generated image,     *)
(* supplied image, placeholder.  A generated background is kept whether or *)
(* not the supplied image exists; the supplied image is copied only when   *)
(* no background was generated; the placeholder is made only when neither  *)
(* gave one.                                                               *)
C12_GeneratedImageFirst ==
    [][ /\ (pc = "background" /\ bg_ok') =>
               /\ PIL_AVAILABLE
               /\ media'[GENERATED_BG] = Picture("generated")
               /\ fs'[GENERATED_BG] = "valid"
        /\ (pc = "background_fallback" /\ bg_ok) =>
               /\ pc' = "voice"
               /\ bg_ok'
               /\ media'[GENERATED_BG] = Picture("generated")
               /\ fs'[GENERATED_BG] = fs[GENERATED_BG]
        /\ (pc = "background_fallback" /\ ~bg_ok /\ file_exists(fs, UPLOADED_BG)) =>
               /\ pc' = "voice"
               /\ bg_ok'
               /\ media'[GENERATED_BG] = Picture(UPLOADED_BG)
               /\ fs'[GENERATED_BG] = fs[UPLOADED_BG]
        /\ (pc = "background_fallback" /\ ~bg_ok /\ ~file_exists(fs, UPLOADED_BG)) =>
               \/ pc' = "aborted"
               \/ media'[GENERATED_BG] \in {Picture("placeholder"), NoMedia} ]_vars

(* C12 witness: the supplied image exists and the generated background is  *)
(* the one the run goes on with                                            *)
C12_Witness ==
    /\ pc = "voice"
    /\ file_exists(fs, UPLOADED_BG)
    /\ bg_ok
    /\ media[GENERATED_BG] = Picture("generated")

====
